---- MODULE Spec2Model ----
(***************************************************************************)
(* A model of IronPyCompiler: ModuleCompiler (src/ironpycompiler.py), the  *)
(* runtime detection detect_ipy, and the command-line handlers of          *)
(* src/ipy2asm.py.                                                         *)
(*                                                                         *)
(* Paths.  A directory is a sequence of components; it is absolute when    *)
(* its first component is "/".  A file path is a record [dir, base, ext],  *)
(* so that os.path.splitext(p)[1] is p.ext and os.path.dirname(p) is       *)
(* p.dir.  The files on disk, the imports each source file makes, the      *)
(* built-in module names and the IronPython installations are the          *)
(* environment; they are fixed tables below.                               *)
(***************************************************************************)
EXTENDS Integers, Sequences, FiniteSets, TLC

VARIABLES
    mc,        \* the ModuleCompiler object: a record of its attributes
    alive,     \* TRUE once ModuleCompiler.__init__ has returned an object
    exc,       \* the exception the last operation ended with, or "none"
    op,        \* the last operation and its inputs
    invoked,   \* the arguments pyc.py received in the last operation,
               \* <<>> when the operation did not run pyc.py
    analysed,  \* a check_compilability pass has completed on this object
    rerun,     \* the last operation repeated the check_compilability call
               \* made just before it, with the same dirs_of_modules
    sys_path,  \* the ambient module search path (sys.path)
    walk,      \* where a check_compilability that is followed one import
               \* at a time stands: its position in the loop over the
               \* scripts and the state of the running import walk
    calls      \* the number of method calls made on the object

vars ==
    <<mc, alive, exc, op, invoked, analysed, rerun, sys_path, walk, calls>>

-----------------------------------------------------------------------------
(* Bounds *)

\* The longest list of entry scripts a caller passes.
MaxScripts == 2

\* The most method calls a caller makes on one object.
MaxCalls == 2

-----------------------------------------------------------------------------
(* Python values *)

\* Python's None, for an optional list of directories.
None == [none |-> TRUE, list |-> <<>>]
Some(l) == [none |-> FALSE, list |-> l]

\* Python's None, for an optional directory or an optional file path.
NoDir == [none |-> TRUE, dir |-> <<>>]
Dir(d) == [none |-> FALSE, dir |-> d]
NoPath == [dir |-> <<>>, base |-> "", ext |-> ""]
NoFile == [none |-> TRUE, path |-> NoPath]
File(p) == [none |-> FALSE, path |-> p]

Path(d, b, e) == [dir |-> d, base |-> b, ext |-> e]

\* The elements of a sequence.
Range(s) == {s[i] : i \in DOMAIN s}

\* list(a_set): the order in which Python iterates a set is not specified
\* and differs from run to run; SetToSeq(S) is the set of the lists the
\* iteration may give, every element of S once, in any order.
SetToSeq(S) == { l \in [1..Cardinality(S) -> S] : Range(l) = S }

-----------------------------------------------------------------------------
(* os.path *)

\* The process's working directory.
Cwd == <<"/", "proj">>

isabs(d) == Len(d) > 0 /\ d[1] = "/"

\* os.path.normpath on a directory: "." components are dropped.
normpath(d) == SelectSeq(d, LAMBDA c : c # ".")

\* os.path.join(d, name) for a relative name.
join(d, name) == Append(d, name)

\* os.path.abspath on a directory and on a file path.
absdir(d) == IF isabs(d) THEN normpath(d) ELSE normpath(Cwd \o d)
abspath(p) == [p EXCEPT !.dir = absdir(p.dir)]

\* os.path.splitext(p)[1]
splitext(p) == p.ext

-----------------------------------------------------------------------------
(* The environment: files, imports, built-ins, installations *)

IpyDirA == <<"/", "ipy">>
IpyDirB == <<"/", "ipy27">>

LibA   == <<"/", "ipy", "Lib">>
SitePk == <<"/", "py", "site-packages">>
OldPk  == <<"/", "py", "old-site-packages">>
PyLib  == <<"/", "py", "lib">>
R1     == <<"/", "proj", "lib1">>
R2     == <<"/", "proj", "lib2">>
RelR1  == <<"lib1">>

\* sys.builtin_module_names
Builtins == {"sys"}

\* The extension of the file that directory d holds for module name n, "" if
\* it holds none.
FileExt(d, n) ==
    LET a == absdir(d) IN
    CASE a = R1     /\ n \in {"a", "b"} -> ".py"
      [] a = R1     /\ n = "nat"        -> ".pyd"
      [] a = R2     /\ n = "nat"        -> ".py"
      [] a = LibA   /\ n = "a"          -> ".py"
      [] a = SitePk /\ n = "c"          -> ".py"
      [] OTHER                          -> ""

\* The module names the source file p (an absolute path) imports.
ImportsOf(p) ==
    CASE p = Path(Cwd, "main", ".py") -> {"a", "sys", "missing"}
      [] p = Path(R1, "a", ".py")     -> {"b", "sys"}
      [] p = Path(R1, "b", ".py")     -> {"a", "nat"}
      [] p = Path(R2, "nat", ".py")   -> {}
      [] p = Path(LibA, "a", ".py")   -> {"sys", "c"}
      [] p = Path(SitePk, "c", ".py") -> {"nat"}
      [] OTHER                        -> {}

\* The entry scripts that cannot be opened or do not parse.
BrokenScripts == {Path(Cwd, "bad", ".py")}

\* The script paths a caller passes: the project's main script (given
\* relative to the working directory as well), a script that is also the
\* module b of R1, and one that cannot be read.
ScriptArgs ==
    { Path(Cwd, "main", ".py"), Path(<<".">>, "main", ".py"),
      Path(R1, "b", ".py"), Path(Cwd, "bad", ".py") }

\* The directories that hold an ipy.exe.
Installed == {IpyDirA}

\* sorted() on directory names: the rank of a directory in string order.
DirRank(d) == IF d = IpyDirA THEN 1 ELSE IF d = IpyDirB THEN 2 ELSE 3

\* The values sys.path takes.
SysPaths ==
    { <<OldPk, PyLib, SitePk, OldPk>>,
      <<PyLib>> }

\* "site-packages" in c, for a path component c.
contains_site_packages(c) == c \in {"site-packages", "old-site-packages"}

\* The dirs_of_modules arguments a caller passes.
RootArgs ==
    { None, Some(<<>>), Some(<<RelR1>>), Some(<<R1, R2>>),
      Some(<<R2, R1>>) }

-----------------------------------------------------------------------------
(* Name lookup *)

\* The names bound at the top level of src/ironpycompiler.py.
ModuleGlobals ==
    { "sys", "itertools", "os", "glob", "modulefinder", "tempfile",
      "subprocess", "argparse", "six", "IPYREGKEYS", "IPYEXE", "PCHError",
      "IronPythonDetectionError", "detect_ipy", "ModuleCompiler", "compile",
      "main" }

\* The names bound at the top level of src/ipy2asm.py.
CliGlobals ==
    { "argparse", "os", "sys", "ironpycompiler", "six", "_compiler",
      "_analyzer", "main" }

\* Reading a name inside a function: it is a local, a global of the module
\* or a built-in, or the read raises NameError.
NameBound(name, locals, globals) == name \in locals \cup globals \cup {"str"}

-----------------------------------------------------------------------------
(* IronPythonDetectionError and detect_ipy *)

\* IronPythonDetectionError.__init__: its parameter is spelled exectuable
\* and its body reads executable.  The exception that leaves a
\* `raise IronPythonDetectionError(executable)` statement.
IronPythonDetectionError ==
    IF NameBound("executable", {"self", "exectuable"}, ModuleGlobals)
    THEN "IronPythonDetectionError"
    ELSE "NameError"

\* sorted(list(S), reverse = True) for a set of directories.
RECURSIVE SortedReverse(_)
SortedReverse(S) ==
    IF S = {} THEN <<>>
    ELSE LET top == CHOOSE d \in S : \A e \in S : DirRank(e) <= DirRank(d)
         IN  <<top>> \o SortedReverse(S \ {top})

\* detect_ipy: reg are the install directories the registry names, pth the
\* directories of PATH that hold an executable ipy.exe.
detect_ipy(reg, pth) ==
    LET ipydirpaths == reg \cup pth IN
    IF Cardinality(ipydirpaths) = 0
    THEN [exc |-> IronPythonDetectionError, value |-> <<>>]
    ELSE [exc |-> "none", value |-> SortedReverse(ipydirpaths)]

-----------------------------------------------------------------------------
(* modulefinder.ModuleFinder, as check_compilability uses it *)

NotFound == [found |-> FALSE, file |-> NoFile]
Found(f) == [found |-> TRUE, file |-> f]

\* ModuleFinder.find_module: a built-in name has no file; otherwise the
\* first directory of path that holds a file for the name wins.
RECURSIVE find_in_path(_, _, _)
find_in_path(name, path, i) ==
    IF i > Len(path) THEN NotFound
    ELSE IF FileExt(path[i], name) # ""
         THEN Found(File(Path(path[i], name, FileExt(path[i], name))))
         ELSE find_in_path(name, path, i + 1)

find_module(name, path) ==
    IF name \in Builtins THEN Found(NoFile)
    ELSE find_in_path(name, path, 1)

\* The state of an import walk: the names still to import, the modules
\* loaded so far ([name, file]) and the names not found.
Walk(todo, modules, badmodules) ==
    [todo |-> todo, modules |-> modules, badmodules |-> badmodules]

\* Importing a name without regard to the modules already seen.
import_module_again(name, r, w) ==
    IF ~r.found
    THEN Walk(w.todo, w.modules, w.badmodules \cup {name})
    ELSE Walk(w.todo \cup
                (IF ~r.file.none /\ splitext(r.file.path) = ".py"
                 THEN ImportsOf(abspath(r.file.path)) ELSE {}),
              w.modules \cup {[name |-> name, file |-> r.file]},
              w.badmodules)

\* Importing one name, r being what find_module gave for it.  A name
\* already in modules or badmodules is not imported again; a name not
\* found becomes a bad module; a module found is loaded, and only a source
\* file is scanned for the names it imports.
import_module(name, r, w) ==
    IF name \in {m.name : m \in w.modules} \cup w.badmodules
    THEN w
    ELSE IF ~r.found
    THEN Walk(w.todo, w.modules, w.badmodules \cup {name})
    ELSE Walk(w.todo \cup
                (IF ~r.file.none /\ splitext(r.file.path) = ".py"
                 THEN ImportsOf(abspath(r.file.path)) ELSE {}),
              w.modules \cup {[name |-> name, file |-> r.file]},
              w.badmodules)

\* The import walk, one name at a time until none is left.
\* The loop over the scripts as a walk stands in it: pc is "idle" (no
\* call is being followed), "loop" (at the head of the loop, about to take
\* script i), "walking" (inside run_script for script i, w being the
\* state of its import walk) or "done" (the method was left).
Position(pc, i, w) == [pc |-> pc, i |-> i, w |-> w]

NoWalk == Position("idle", 0, Walk({}, {}, {}))

RECURSIVE import_walk(_, _)
import_next(name, w, path) ==
    import_walk(
        import_module(name, find_module(name, path),
                      Walk(w.todo \ {name}, w.modules, w.badmodules)),
        path)

import_walk(w, path) ==
    IF w.todo = {} THEN w
    ELSE import_next(CHOOSE n \in w.todo : TRUE, w, path)

\* What ModuleFinder holds after a run_script that returned.
Walked(w) ==
    [exc |-> "none", modules |-> w.modules, badmodules |-> w.badmodules]

\* ModuleFinder(path = path).run_script(script): the script is opened and
\* compiled (an IOError or a SyntaxError leaves the call), loaded as
\* __main__ with the script's path as its file, and its imports are walked.
run_script(script, path) ==
    IF script \in BrokenScripts
    THEN [exc |-> "IOError", modules |-> {}, badmodules |-> {}]
    ELSE Walked(import_walk(
                   Walk(ImportsOf(script),
                        {[name |-> "__main__", file |-> File(script)]}, {}),
                   path))

-----------------------------------------------------------------------------
(* ModuleCompiler *)

\* self.response_file: None, or the temporary file mkstemp made, which
\* exists until it is removed.
NoResponseFile == [none |-> TRUE, exists |-> FALSE]

\* One line of the response file handed to pyc.py: an option, with the
\* text or the path that follows it, or a bare path.
Arg(o, t, p) == [opt |-> o, text |-> t, path |-> p]

\* The value of mc before any object is constructed.
NoObject ==
    [ ipy_dir              |-> <<>>,
      paths_to_scripts     |-> <<>>,
      dirs_of_modules      |-> None,
      compilable_modules   |-> {},
      uncompilable_modules |-> {},
      response_file        |-> NoResponseFile,
      pyc_stdout           |-> "None",
      pyc_stderr           |-> "None" ]

\* How an operation ends: the exception that left it ("none" when it
\* returned), the object as it then is, the arguments pyc.py received
\* (<<>> when it was not run) and whether a check_compilability pass
\* completed in it.
Result(e, self, args, checked) ==
    [exc |-> e, self |-> self, args |-> args, checked |-> checked]

\* The body of ModuleCompiler.__init__ once self.ipy_dir is known.
new_object(paths, dir) ==
    [NoObject EXCEPT
        !.ipy_dir = dir,
        !.paths_to_scripts = [i \in DOMAIN paths |-> abspath(paths[i])]]

\* ModuleCompiler.__init__ with ipy_dir None: d is what detect_ipy gave.
init_detected(paths, d) ==
    IF d.exc # "none"
    THEN Result(d.exc, NoObject, <<>>, FALSE)
    ELSE Result("none", new_object(paths, d.value[1]), <<>>, FALSE)

\* ModuleCompiler.__init__(paths_to_scripts, ipy_dir), with the registry and
\* PATH contents detect_ipy reads when ipy_dir is None.
ModuleCompiler_init(paths, ipy_dir, reg, pth) ==
    IF ipy_dir.none
    THEN init_detected(paths, detect_ipy(reg, pth))
    ELSE Result("none", new_object(paths, ipy_dir.dir), <<>>, FALSE)

\* A variant of dirs_to_use that tests the argument's truth value, as
\* `if not dirs_of_modules` would: an empty list gets the default roots.
dirs_to_use_if_not(ipy_dir, dirs, syspath) ==
    IF dirs.none \/ dirs.list = <<>>
    THEN Some(<<join(ipy_dir, "Lib")>>
              \o SelectSeq(syspath,
                     LAMBDA p : \E i \in DOMAIN p :
                                    contains_site_packages(p[i])))
    ELSE dirs

\* The search roots check_compilability uses for the argument dirs.
dirs_to_use(ipy_dir, dirs, syspath) ==
    IF dirs.none
    THEN Some(<<join(ipy_dir, "Lib")>>
              \o SelectSeq(syspath,
                     LAMBDA p : \E i \in DOMAIN p :
                                    contains_site_packages(p[i])))
    ELSE dirs

\* A variant of add_badmodules with ^= in place of |=.
add_badmodules_xor(uncompilable, badmodules) ==
    (uncompilable \ badmodules) \cup (badmodules \ uncompilable)

\* self.uncompilable_modules |= set(mf.badmodules.keys())
add_badmodules(uncompilable, badmodules) == uncompilable \cup badmodules

\* The loop over mf.modules.iteritems(): the name of a module whose file is
\* a .pyd joins uncompilable_modules, the absolute path of any other file
\* joins compilable_modules, a module without a file is skipped.
add_modules(self, modules) ==
    [self EXCEPT
        !.uncompilable_modules = @ \cup
            { m.name : m \in { x \in modules :
                  ~x.file.none /\ splitext(x.file.path) = ".pyd" } },
        !.compilable_modules = @ \cup
            { abspath(m.file.path) : m \in { x \in modules :
                  ~x.file.none /\ splitext(x.file.path) # ".pyd" } }]

\* self.compilable_modules -= set(self.paths_to_scripts)
remove_scripts(self) ==
    [self EXCEPT !.compilable_modules = @ \ Range(self.paths_to_scripts)]

\* The loop over self.paths_to_scripts from index i on, and the statement
\* after it.  An exception of run_script leaves the method at once.
RECURSIVE script_loop(_, _)
loop_body(self, mf, i) ==
    IF mf.exc # "none"
    THEN Result(mf.exc, self, <<>>, FALSE)
    ELSE script_loop(
           add_modules(
             [self EXCEPT !.uncompilable_modules =
                              add_badmodules(@, mf.badmodules)],
             mf.modules),
           i + 1)

script_loop(self, i) ==
    IF i > Len(self.paths_to_scripts)
    THEN Result("none", remove_scripts(self), <<>>, TRUE)
    ELSE loop_body(self,
                   run_script(self.paths_to_scripts[i],
                              self.dirs_of_modules.list),
                   i)

\* ModuleCompiler.check_compilability(dirs_of_modules)
check_compilability(self, dirs, syspath) ==
    script_loop(
        [self EXCEPT !.dirs_of_modules =
                         dirs_to_use(self.ipy_dir, dirs, syspath)],
        1)

\* What pyc.py prints.
PycOutput == "pyc output"

\* ModuleCompiler.call_pyc(args, delete_resp): the response file is made
\* and args are written to it, then ipy.exe of self.ipy_dir is started on
\* pyc.py with the response file (an OSError when there is no ipy.exe),
\* its output is kept and the response file is removed.  checked is what
\* the caller's result carries on.
call_pyc(self, args, delete_resp, checked) ==
    IF self.ipy_dir \notin Installed
    THEN Result("OSError",
                [self EXCEPT !.response_file =
                                 [none |-> FALSE, exists |-> TRUE]],
                <<>>, checked)
    ELSE Result("none",
                [self EXCEPT !.response_file =
                                 [none |-> FALSE, exists |-> ~delete_resp],
                             !.pyc_stdout = PycOutput,
                             !.pyc_stderr = "None"],
                args, checked)

\* An optional out argument: its text, or None.
NoOut == [none |-> TRUE, text |-> ""]
Out(t) == [none |-> FALSE, text |-> t]

out_arg(out) ==
    IF out.none THEN <<>> ELSE <<Arg("/out:", out.text, NoPath)>>

\* pyc_args += self.paths_to_scripts; pyc_args += self.compilable_modules
path_args(l) == [i \in DOMAIN l |-> Arg("", "", l[i])]

\* modules is the list the iteration of self.compilable_modules gave, one
\* of SetToSeq(self.compilable_modules).
script_and_module_args(self, modules) ==
    path_args(self.paths_to_scripts) \o path_args(modules)

\* The guard both create methods start with.
ensure_checked(self, syspath) ==
    IF self.compilable_modules = {}
    THEN check_compilability(self, None, syspath)
    ELSE Result("none", self, <<>>, FALSE)

\* ModuleCompiler.create_dll after the guard, c being how the guard ended.
dll_args(c, out, delete_resp, modules) ==
    IF c.exc # "none" THEN c
    ELSE call_pyc(c.self,
                  <<Arg("/target:dll", "", NoPath)>> \o out_arg(out)
                    \o script_and_module_args(c.self, modules),
                  delete_resp, c.checked)

\* ModuleCompiler.create_dll(out, delete_resp), modules being the order in
\* which the set of compilable modules is iterated.
create_dll(self, out, delete_resp, syspath, modules) ==
    dll_args(ensure_checked(self, syspath), out, delete_resp, modules)

\* The options of create_executable.
ExeOptions ==
    { [out |-> NoOut, winexe |-> FALSE, target_platform |-> "None",
       embed |-> TRUE, standalone |-> TRUE, mta |-> FALSE,
       delete_resp |-> TRUE],
      [out |-> Out("app"), winexe |-> TRUE, target_platform |-> "x86",
       embed |-> FALSE, standalone |-> FALSE, mta |-> TRUE,
       delete_resp |-> FALSE] }

\* The arguments create_executable puts between /main: and the paths.
exe_options(o) ==
    out_arg(o.out)
      \o (IF o.winexe
          THEN <<Arg("/target:winexe", "", NoPath)>>
               \o (IF o.mta THEN <<Arg("/mta", "", NoPath)>> ELSE <<>>)
          ELSE <<Arg("/target:exe", "", NoPath)>>)
      \o (IF o.target_platform \in {"x86", "x64"}
          THEN <<Arg("/platform:", o.target_platform, NoPath)>>
          ELSE <<>>)
      \o (IF o.embed THEN <<Arg("/embed", "", NoPath)>> ELSE <<>>)
      \o (IF o.standalone THEN <<Arg("/standalone", "", NoPath)>>
          ELSE <<>>)

\* The /main: argument: self.paths_to_scripts[0].
main_arg(self) == Arg("/main:", "", self.paths_to_scripts[1])

\* ModuleCompiler.create_executable after the guard, c being how the guard
\* ended.
exe_args(c, o, modules) ==
    IF c.exc # "none" THEN c
    ELSE IF Len(c.self.paths_to_scripts) = 0
    THEN Result("IndexError", c.self, <<>>, c.checked)
    ELSE call_pyc(c.self,
                  <<main_arg(c.self)>> \o exe_options(o)
                    \o script_and_module_args(c.self, modules),
                  o.delete_resp, c.checked)

\* ModuleCompiler.create_executable(out, winexe, target_platform, embed,
\* standalone, mta, delete_resp), modules being the order in which the set
\* of compilable modules is iterated.
create_executable(self, o, syspath, modules) ==
    exe_args(ensure_checked(self, syspath), o, modules)

-----------------------------------------------------------------------------
(* The command-line handlers of ipy2asm.py *)

NoMain == [none |-> TRUE, path |-> NoPath]
Main(p) == [none |-> FALSE, path |-> p]

\* The lists of entry scripts a caller passes.
ScriptLists == UNION { [1..n -> ScriptArgs] : n \in 0..MaxScripts }

\* The scripts and the parsed arguments of the command line: nargs = "+"
\* gives at least one script.
CliScripts ==
    { Path(Cwd, "main", ".py"), Path(R1, "b", ".py"),
      Path(Cwd, "bad", ".py") }

CliScriptLists == UNION { [1..n -> CliScripts] : n \in 1..MaxScripts }

CompileArgs ==
    [ target : {"dll", "exe", "winexe"},
      main   : {NoMain, Main(Path(Cwd, "main", ".py")),
                Main(Path(R1, "b", ".py"))},
      script : CliScriptLists,
      o      : {CHOOSE x \in ExeOptions : x.winexe} ]

NoArgs == [target |-> "", main |-> NoMain, script |-> <<>>,
           o |-> CHOOSE x \in ExeOptions : ~x.winexe]

\* The first statement of _compiler: for an executable target whose main
\* script is not among the scripts, args.script.insert(0, arg.main); the
\* handler's parameter is args, and arg is read.
insert_main(args) ==
    IF args.target \in {"winexe", "exe"}
       /\ ~args.main.none /\ args.main.path \notin Range(args.script)
    THEN IF NameBound("arg", {"args"}, CliGlobals)
         THEN [exc |-> "none", script |-> <<args.main.path>> \o args.script]
         ELSE [exc |-> "NameError", script |-> args.script]
    ELSE [exc |-> "none", script |-> args.script]

\* The options _compiler passes to the create method of the target.
target_options(args) ==
    IF args.target = "winexe"
    THEN [args.o EXCEPT !.winexe = TRUE, !.delete_resp = TRUE]
    ELSE [args.o EXCEPT !.winexe = FALSE, !.mta = FALSE,
                        !.delete_resp = TRUE]

\* Whether a check_compilability pass completed in either of two steps.
either_checked(r, c) == [r EXCEPT !.checked = r.checked \/ c.checked]

\* _compiler after mc.check_compilability(), chk being how that ended: the
\* create method of the target is called.
compile_checked(args, chk, syspath, modules) ==
    IF chk.exc # "none" THEN chk
    ELSE IF args.target \in {"winexe", "exe"}
    THEN either_checked(
           create_executable(chk.self, target_options(args), syspath,
                             modules),
           chk)
    ELSE either_checked(
           create_dll(chk.self, args.o.out, TRUE, syspath, modules), chk)

\* A handler after its ModuleCompiler(...) call, made being how that ended:
\* mc.check_compilability() follows.
check_made(made, syspath) ==
    IF made.exc # "none" THEN made
    ELSE check_compilability(made.self, None, syspath)

\* _compiler after its first statement, ins being how that ended.
compile_inserted(args, ins, reg, pth, syspath, modules) ==
    IF ins.exc # "none"
    THEN Result(ins.exc, NoObject, <<>>, FALSE)
    ELSE compile_checked(args,
                         check_made(ModuleCompiler_init(ins.script, NoDir,
                                                        reg, pth), syspath),
                         syspath, modules)

\* _compiler(args): the script list is prepared, the ModuleCompiler is made
\* and checked, and the target's create method is called, modules being
\* the order in which it iterates the set of compilable modules.
compiler(args, reg, pth, syspath, modules) ==
    compile_inserted(args, insert_main(args), reg, pth, syspath, modules)

\* The set of compilable modules the create method of _compiler iterates:
\* the object's set does not depend on the order of the iteration.
compiled_modules(args, reg, pth, syspath) ==
    compiler(args, reg, pth, syspath, <<>>).self.compilable_modules

\* ironpycompiler.compile(args) after its ModuleCompiler(...) call, made
\* being how that ended: the create method of the target is called on the
\* object as constructed.
compile_made(args, made, syspath, modules) ==
    IF made.exc # "none" THEN made
    ELSE IF args.target \in {"winexe", "exe"}
    THEN create_executable(made.self, target_options(args), syspath, modules)
    ELSE create_dll(made.self, args.o.out, TRUE, syspath, modules)

\* ironpycompiler.compile(args): the ModuleCompiler is made from
\* args.script as given and the target's create method is called, modules
\* being the order in which it iterates the set of compilable modules.
compile(args, reg, pth, syspath, modules) ==
    compile_made(args, ModuleCompiler_init(args.script, NoDir, reg, pth),
                 syspath, modules)

\* The set of compilable modules the create method of compile iterates.
compile_modules(args, reg, pth, syspath) ==
    compile(args, reg, pth, syspath, <<>>).self.compilable_modules

\* _analyzer(args): the ModuleCompiler is made and checked; the roots and
\* the two sets are printed.
analyzer(script, reg, pth, syspath) ==
    check_made(ModuleCompiler_init(script, NoDir, reg, pth), syspath)

-----------------------------------------------------------------------------
(* The state machine *)

\* The record of an operation: its name, the dirs_of_modules and ipy_dir
\* arguments, whether the registry or PATH named an installation, whether
\* an analysis had completed on the object before it, and the command
\* line's arguments.
Op(name, dirs, ipy_dir, found, before, args) ==
    [name |-> name, dirs |-> dirs, ipy_dir |-> ipy_dir, found |-> found,
     analysed |-> before, args |-> args]

NoOp == Op("none", None, NoDir, FALSE, FALSE, NoArgs)

\* What the registry and PATH name: nothing; the installation, on PATH;
\* the installation and a directory the registry still names although
\* its ipy.exe is gone.
DetectInputs ==
    { [reg |-> {}, pth |-> {}],
      [reg |-> {}, pth |-> {IpyDirA}],
      [reg |-> {IpyDirA, IpyDirB}, pth |-> {IpyDirA}] }

\* The ipy_dir argument with what detect_ipy would read: no argument, or
\* the installation's directory.
InitInputs ==
    { [ipy_dir |-> NoDir, env |-> e] : e \in DetectInputs }
    \cup { [ipy_dir |-> Dir(IpyDirA), env |-> [reg |-> {}, pth |-> {}]] }

\* A caller holds the object and may call its methods: it was constructed,
\* and not inside a command-line handler, whose process has ended.
callable ==
    /\ alive
    /\ op.name \notin {"_compiler", "_analyzer", "compile"}
    /\ calls < MaxCalls

Init ==
    /\ mc = NoObject
    /\ alive = FALSE
    /\ exc = "none"
    /\ op = NoOp
    /\ invoked = <<>>
    /\ analysed = FALSE
    /\ rerun = FALSE
    /\ sys_path \in SysPaths
    /\ walk = NoWalk
    /\ calls = 0

\* The state after a method of the object ended as r.
Returned(r) ==
    /\ mc' = r.self
    /\ exc' = r.exc
    /\ invoked' = r.args
    /\ analysed' = (analysed \/ r.checked)
    /\ calls' = calls + 1
    /\ UNCHANGED <<alive, sys_path, walk>>

\* The state after a constructor call, or a handler that makes its own
\* object, ended as r.
Made(r) ==
    /\ mc' = r.self
    /\ alive' = (r.self # NoObject)
    /\ exc' = r.exc
    /\ invoked' = r.args
    /\ analysed' = r.checked
    /\ rerun' = FALSE
    /\ calls' = 0
    /\ UNCHANGED <<sys_path, walk>>

\* mc = ModuleCompiler(paths_to_scripts, ipy_dir)
Construct ==
    /\ ~alive
    /\ \E paths \in ScriptLists, i \in InitInputs :
         /\ Made(ModuleCompiler_init(paths, i.ipy_dir, i.env.reg, i.env.pth))
         /\ op' = Op("__init__", None, i.ipy_dir,
                     i.env.reg \cup i.env.pth # {}, FALSE, NoArgs)

\* mc.check_compilability(dirs_of_modules)
CheckCompilability ==
    /\ callable
    /\ \E dirs \in RootArgs :
         /\ Returned(check_compilability(mc, dirs, sys_path))
         /\ op' = Op("check_compilability", dirs, NoDir, FALSE, analysed,
                     NoArgs)
         /\ rerun' = (op.name = "check_compilability" /\ op.dirs = dirs)

\* mc.create_dll(out, delete_resp)
CreateDll ==
    /\ callable
    /\ \E a \in {[out |-> NoOut, delete_resp |-> TRUE],
                 [out |-> Out("app"), delete_resp |-> FALSE]},
          modules \in SetToSeq(
                        ensure_checked(mc, sys_path).self.compilable_modules) :
         Returned(create_dll(mc, a.out, a.delete_resp, sys_path, modules))
    /\ op' = Op("create_dll", None, NoDir, FALSE, analysed, NoArgs)
    /\ rerun' = FALSE

\* mc.create_executable(...)
CreateExecutable ==
    /\ callable
    /\ \E o \in ExeOptions,
          modules \in SetToSeq(
                        ensure_checked(mc, sys_path).self.compilable_modules) :
         Returned(create_executable(mc, o, sys_path, modules))
    /\ op' = Op("create_executable", None, NoDir, FALSE, analysed, NoArgs)
    /\ rerun' = FALSE

\* mc.call_pyc(args, delete_resp), called directly.
CallPyc ==
    /\ callable
    /\ \E delete_resp \in BOOLEAN :
         Returned(call_pyc(mc, <<Arg("/target:dll", "", NoPath)>>,
                           delete_resp, FALSE))
    /\ op' = Op("call_pyc", None, NoDir, FALSE, analysed, NoArgs)
    /\ rerun' = FALSE

\* ipy2asm compile ..., run as a process of its own.
Compiler ==
    /\ op = NoOp
    /\ \E args \in CompileArgs, e \in DetectInputs :
         /\ \E modules \in SetToSeq(
                               compiled_modules(args, e.reg, e.pth, sys_path)) :
              Made(compiler(args, e.reg, e.pth, sys_path, modules))
         /\ op' = Op("_compiler", None, NoDir, e.reg \cup e.pth # {}, FALSE,
                     args)

\* ironpycompiler.compile(args), the object being local to the function.
Compile ==
    /\ op = NoOp
    /\ \E args \in CompileArgs, e \in DetectInputs :
         /\ \E modules \in SetToSeq(
                               compile_modules(args, e.reg, e.pth, sys_path)) :
              Made(compile(args, e.reg, e.pth, sys_path, modules))
         /\ op' = Op("compile", None, NoDir, e.reg \cup e.pth # {}, FALSE,
                     args)

\* ipy2asm analyze ..., run as a process of its own.
Analyzer ==
    /\ op = NoOp
    /\ \E script \in CliScriptLists, e \in DetectInputs :
         /\ Made(analyzer(script, e.reg, e.pth, sys_path))
         /\ op' = Op("_analyzer", None, NoDir, e.reg \cup e.pth # {}, FALSE,
                     [NoArgs EXCEPT !.script = script])

Next ==
    \/ Construct
    \/ CheckCompilability
    \/ CreateDll
    \/ CreateExecutable
    \/ CallPyc
    \/ Compiler
    \/ Compile
    \/ Analyzer

Spec == Init /\ [][Next]_vars

-----------------------------------------------------------------------------
(* What a walk contributes, stated apart from the method *)

\* The modules the walk of script reaches under roots, __main__ left out.
Reached(script, roots) ==
    { m \in run_script(script, roots).modules : m.name # "__main__" }

\* The names the walk of script cannot resolve or finds as a native binary.
UnresolvedBy(script, roots) ==
    run_script(script, roots).badmodules
      \cup { m.name : m \in { x \in Reached(script, roots) :
                 ~x.file.none /\ x.file.path.ext = ".pyd" } }

\* The absolute paths of the source files the walk of script resolves.
ResolvedBy(script, roots) ==
    { abspath(m.file.path) : m \in { x \in Reached(script, roots) :
          ~x.file.none /\ x.file.path.ext # ".pyd" } }

Scripts == Range(mc.paths_to_scripts)

\* The roots the last check_compilability call used.
RootsUsed == mc.dirs_of_modules.list

Checked == op.name = "check_compilability"

-----------------------------------------------------------------------------
(* Claims *)

\* C1: no entry-script path is ever in compilable_modules, in any state a
\* caller can observe, whether the last call returned or raised.
C1_NoScriptInCompilable ==
    alive => \A s \in Scripts : s \notin mc.compilable_modules

\* C2: when a script of the list cannot be opened or parsed, every other
\* script of the list, before or after it, is still walked: its resolved
\* modules and unresolved names are in the two sets when
\* check_compilability finishes.
C2_FailureConfined ==
    (Checked /\ \E s \in Scripts : s \in BrokenScripts) =>
        \A s \in Scripts \ BrokenScripts :
            /\ UnresolvedBy(s, RootsUsed) \subseteq mc.uncompilable_modules
            /\ ResolvedBy(s, RootsUsed) \ Scripts
                   \subseteq mc.compilable_modules

\* C3: compilable and uncompilable are disjoint in every reachable state:
\* no module has its file path in compilable_modules and its name in
\* uncompilable_modules.
C3_Disjoint ==
    alive => \A p \in mc.compilable_modules \ Scripts :
                 p.base \notin mc.uncompilable_modules

\* C4: after check_compilability(roots) returns, the two sets hold exactly
\* what that call's walk of paths_to_scripts against roots produced, and
\* nothing from an earlier call.
C4_FreshResult ==
    (Checked /\ exc = "none") =>
        /\ mc.compilable_modules =
               UNION { ResolvedBy(s, RootsUsed) : s \in Scripts } \ Scripts
        /\ mc.uncompilable_modules =
               UNION { UnresolvedBy(s, RootsUsed) : s \in Scripts }

\* C5: once a check_compilability pass has completed, create_dll,
\* create_executable and call_pyc leave compilable_modules,
\* uncompilable_modules and dirs_of_modules unchanged.
C5_DownstreamReadOnly ==
    [][ (analysed /\ callable
         /\ op'.name \in {"create_dll", "create_executable", "call_pyc"})
        => /\ mc'.compilable_modules = mc.compilable_modules
           /\ mc'.uncompilable_modules = mc.uncompilable_modules
           /\ mc'.dirs_of_modules = mc.dirs_of_modules ]_vars

\* C6: when no installation is found and the caller gave no ipy_dir, the
\* operation fails with IronPythonDetectionError before any resolution: no
\* object is made, no script is walked, no module joins either set.
C6_RuntimeNotFound ==
    (op.name \in {"__init__", "_analyzer"} /\ op.ipy_dir.none /\ ~op.found)
        => /\ exc = "IronPythonDetectionError"
           /\ ~alive
           /\ mc.compilable_modules = {}
           /\ mc.uncompilable_modules = {}

\* C7: every module a script's walk reaches gets the outcome its resolution
\* fixes: not found, its name is in uncompilable_modules; found as a .pyd,
\* its name is in uncompilable_modules and its path is not in
\* compilable_modules; found without a file, it is in neither set; found
\* as a source file that is no entry script, its absolute path is in
\* compilable_modules and its name is not in uncompilable_modules.
C7_Outcomes ==
    (Checked /\ exc = "none") =>
        \A s \in Scripts :
            /\ run_script(s, RootsUsed).badmodules
                   \subseteq mc.uncompilable_modules
            /\ \A m \in Reached(s, RootsUsed) :
                   IF m.file.none
                   THEN m.name \notin mc.uncompilable_modules
                   ELSE IF m.file.path.ext = ".pyd"
                   THEN /\ m.name \in mc.uncompilable_modules
                        /\ abspath(m.file.path) \notin mc.compilable_modules
                   ELSE abspath(m.file.path) \notin Scripts =>
                        /\ abspath(m.file.path) \in mc.compilable_modules
                        /\ m.name \notin mc.uncompilable_modules

\* C8: for a compile with target exe or winexe and a main script M given
\* with --main, M is the first element of the script list handed to
\* ModuleCompiler, and the /main: argument pyc.py receives names M, whether
\* M is absent from the positional scripts or among them at any position.
C8_MainFirst ==
    (op.name = "_compiler" /\ op.args.target \in {"exe", "winexe"}
     /\ ~op.args.main.none /\ op.found)
        => /\ alive
           /\ mc.paths_to_scripts[1] = abspath(op.args.main.path)
           /\ invoked # <<>> =>
                  invoked[1] = Arg("/main:", "", abspath(op.args.main.path))

\* reversed(l)
Reverse(l) == [i \in DOMAIN l |-> l[Len(l) + 1 - i]]

\* C9: analysis is idempotent: a second check_compilability on the same
\* object with the same roots leaves compilable_modules and
\* uncompilable_modules as the first left them; and a call that returns
\* leaves the sets it would have left with the scripts in reverse order.
C9_Idempotent ==
    [][ (callable /\ op'.name = "check_compilability")
        => /\ (Checked /\ op'.dirs = op.dirs)
                  => /\ mc'.compilable_modules = mc.compilable_modules
                     /\ mc'.uncompilable_modules = mc.uncompilable_modules
           /\ exc' = "none"
                  => /\ mc'.compilable_modules =
                          check_compilability(
                              [mc EXCEPT !.paths_to_scripts = Reverse(@)],
                              op'.dirs, sys_path).self.compilable_modules
                     /\ mc'.uncompilable_modules =
                          check_compilability(
                              [mc EXCEPT !.paths_to_scripts = Reverse(@)],
                              op'.dirs, sys_path).self.uncompilable_modules
      ]_vars

\* A second run with the same roots has happened on two different scripts
\* and left both sets non-empty.
C9_Witness ==
    /\ rerun /\ Checked /\ exc = "none"
    /\ Cardinality(Scripts) = 2
    /\ mc.compilable_modules # {}
    /\ mc.uncompilable_modules # {}

\* The entries of a search path that contain "site-packages", in order.
RECURSIVE SitePackagesEntries(_)
SitePackagesEntries(path) ==
    IF path = <<>> THEN <<>>
    ELSE (IF \E i \in DOMAIN Head(path) :
                 contains_site_packages(Head(path)[i])
          THEN <<Head(path)>> ELSE <<>>)
         \o SitePackagesEntries(Tail(path))

\* C10: without explicit roots, the roots used are <ipy_dir>/Lib first,
\* then every entry of sys.path that contains "site-packages", in order and
\* with duplicates kept; with explicit roots, an empty list included, the
\* roots used are the caller's list.
C10_SearchRoots ==
    (Checked \/ (op.name = "_analyzer" /\ alive)) =>
        IF op.dirs.none
        THEN /\ ~mc.dirs_of_modules.none
             /\ Head(RootsUsed) = Append(mc.ipy_dir, "Lib")
             /\ Tail(RootsUsed) = SitePackagesEntries(sys_path)
        ELSE mc.dirs_of_modules = op.dirs

\* A call without roots used a default list that repeats an entry.
C10_Witness ==
    /\ Checked /\ op.dirs.none
    /\ Len(RootsUsed) = 4
    /\ RootsUsed[2] = RootsUsed[4]
    /\ mc.compilable_modules # {}

-----------------------------------------------------------------------------
(* check_compilability followed one import at a time *)

\* An object just constructed on which check_compilability(dirs) has
\* fixed dirs_of_modules and stands at the head of the loop.
WalkInit ==
    /\ sys_path \in SysPaths
    /\ \E paths \in ScriptLists, dirs \in RootArgs :
         /\ mc = [new_object(paths, IpyDirA) EXCEPT
                     !.dirs_of_modules = dirs_to_use(IpyDirA, dirs, sys_path)]
         /\ op = Op("check_compilability", dirs, NoDir, FALSE, FALSE, NoArgs)
    /\ alive = TRUE
    /\ exc = "none"
    /\ invoked = <<>>
    /\ analysed = FALSE
    /\ rerun = FALSE
    /\ calls = 1
    /\ walk = Position("loop", 1, Walk({}, {}, {}))

\* mf.run_script(script) starts for the next script: a script that cannot
\* be opened leaves the method with the exception, otherwise the script
\* is loaded as __main__ and its imports wait to be walked.
RunScript ==
    /\ walk.pc = "loop"
    /\ walk.i <= Len(mc.paths_to_scripts)
    /\ IF mc.paths_to_scripts[walk.i] \in BrokenScripts
       THEN /\ exc' = "IOError"
            /\ walk' = Position("done", walk.i, walk.w)
       ELSE /\ exc' = exc
            /\ walk' = Position("walking", walk.i,
                          Walk(ImportsOf(mc.paths_to_scripts[walk.i]),
                               {[name |-> "__main__",
                                 file |-> File(mc.paths_to_scripts[walk.i])]},
                               {}))
    /\ UNCHANGED <<mc, alive, op, invoked, analysed, rerun, sys_path, calls>>

\* The walk imports one of the names that wait, in any order.
ImportStep ==
    /\ walk.pc = "walking"
    /\ \E name \in walk.w.todo :
         walk' = Position("walking", walk.i,
                   import_module(name,
                       find_module(name, mc.dirs_of_modules.list),
                       Walk(walk.w.todo \ {name}, walk.w.modules,
                            walk.w.badmodules)))
    /\ UNCHANGED <<mc, alive, exc, op, invoked, analysed, rerun, sys_path,
                   calls>>

\* run_script returned: the rest of the loop body adds what it found, and
\* the loop goes to the next script.
ScriptDone ==
    /\ walk.pc = "walking"
    /\ walk.w.todo = {}
    /\ mc' = add_modules(
                [mc EXCEPT !.uncompilable_modules =
                               add_badmodules(@, walk.w.badmodules)],
                walk.w.modules)
    /\ walk' = Position("loop", walk.i + 1, Walk({}, {}, {}))
    /\ UNCHANGED <<alive, exc, op, invoked, analysed, rerun, sys_path, calls>>

\* The loop is over: the scripts are removed and the method returns.
LoopDone ==
    /\ walk.pc = "loop"
    /\ walk.i > Len(mc.paths_to_scripts)
    /\ mc' = remove_scripts(mc)
    /\ analysed' = TRUE
    /\ walk' = Position("done", walk.i, walk.w)
    /\ UNCHANGED <<alive, exc, op, invoked, rerun, sys_path, calls>>

WalkNext ==
    \/ RunScript
    \/ ImportStep
    \/ ScriptDone
    \/ LoopDone

\* The method runs in the caller's thread and nothing in it waits: a step
\* that can be taken is taken.
WalkSpec == WalkInit /\ [][WalkNext]_vars /\ WF_vars(WalkNext)

\* The method followed step by step ends as the method taken at once: the
\* same exception and the same object.
WalkAgrees ==
    walk.pc = "done" =>
        check_compilability(
            [mc EXCEPT !.compilable_modules = {},
                       !.uncompilable_modules = {}],
            mc.dirs_of_modules, sys_path)
        = Result(exc, mc, <<>>, analysed)

-----------------------------------------------------------------------------
(* C11 *)

\* C11: the import walk terminates on every finite import graph, cyclic
\* ones included: every check_compilability, whatever the scripts, the
\* roots and the order in which the waiting names are imported, is left
\* in the end, with finite result sets.
C11_WalkTerminates ==
    <>(/\ walk.pc = "done"
       /\ IsFiniteSet(mc.compilable_modules)
       /\ IsFiniteSet(mc.uncompilable_modules))

\* A call that returned after walking a cycle: the script imports a, a
\* imports b and b imports a, all three resolved.
C11_Witness ==
    /\ walk.pc = "done" /\ exc = "none"
    /\ \E s \in Scripts :
         /\ "a" \in ImportsOf(s)
         /\ Path(R1, "a", ".py") \in mc.compilable_modules
         /\ Path(R1, "b", ".py") \in mc.compilable_modules
         /\ "b" \in ImportsOf(Path(R1, "a", ".py"))
         /\ "a" \in ImportsOf(Path(R1, "b", ".py"))

====
